---- MODULE Spec2Model ----
(***************************************************************************)
(* A model of the ride-sharing simulation: the dispatcher                  *)
(* (src/dispatcher.py), the drivers (src/driver.py), the riders            *)
(* (src/rider.py), the locations (src/location.py) and the five events     *)
(* with their do() handlers (src/event.py).                                *)
(*                                                                         *)
(* Riders and drivers are the objects create_event_list builds, one per    *)
(* line of the input; an object is named by the number of its line.        *)
(* The run loop and the PriorityQueue container are not among the source   *)
(* files; they are modelled from the specification (a queue ordered by the *)
(* items' own "<", first in first out among ties, membership and deletion  *)
(* by the items' own "==").                                                *)
(***************************************************************************)
EXTENDS Integers, Sequences, FiniteSets, TLC

\* ---------------------------------------------------------------- bounds
MaxEvents == 3      \* lines of the input file
MaxGap == 1         \* step between the timestamps of two lines, if any
MaxPatience == 4    \* the patience of a patient rider
MaxRow == 1         \* row of the far corner of the grid
MaxCol == 2         \* column of the far corner of the grid
MaxSpeed == 2       \* speed of a fast driver

\* ------------------------------------------------------------- constants
WAITING == "waiting"
CANCELLED == "cancelled"
SATISFIED == "satisfied"

RIDER == "rider"
DRIVER == "driver"
REQUEST == "request"
CANCEL == "cancel"
PICKUP == "pickup"
DROPOFF == "dropoff"

\* Python's None, where an object (named by a line number >= 1) is expected.
None == 0

\* ------------------------------------------------------------- locations
Location(row, column) == [row |-> row, col |-> column]

\* Python's None, where a Location is expected.
NoLocation == [row |-> -1, col |-> -1]

NearCorner == Location(0, 0)
FarCorner == Location(MaxRow, MaxCol)
Locations == {NearCorner, FarCorner}

abs(x) == IF x < 0 THEN -x ELSE x

\* A manhattan_distance that adds the differences as they are, signed.
manhattan_distance_signed(origin, destination) ==
    (origin.row - destination.row) + (origin.col - destination.col)

manhattan_distance(origin, destination) ==
    abs(origin.row - destination.row) + abs(origin.col - destination.col)

\* Python 3's round(n / d) for n >= 0, d > 0: to the nearest integer, a half
\* to the even neighbour.
round(n, d) ==
    LET q == n \div d
        r == n % d
    IN  IF 2 * r < d THEN q
        ELSE IF 2 * r > d THEN q + 1
        ELSE IF q % 2 = 0 THEN q ELSE q + 1

\* ---------------------------------------------------------------- riders
\* A Rider.__lt__ that compares the wrong way round.
Rider_lt_reversed(self, other) == self.timestamp > other.timestamp

Rider(timestamp, identifier, patience, origin, destination) ==
    [status |-> WAITING, id |-> identifier, origin |-> origin,
     destination |-> destination, patience |-> patience,
     timestamp |-> timestamp]

Rider_eq(self, other) == self.timestamp = other.timestamp

Rider_lt(self, other) == self.timestamp < other.timestamp

\* --------------------------------------------------------------- drivers
Driver(timestamp, identifier, location, speed) ==
    [id |-> identifier, location |-> location, speed |-> speed,
     destination |-> NoLocation, rider |-> None, is_idle |-> TRUE,
     timestamp |-> timestamp]

\* A get_travel_time that takes the differences of the coordinates as they
\* are, signed.
get_travel_time_signed(self, destination) ==
    round(manhattan_distance_signed(self.location, destination), self.speed)

get_travel_time(self, destination) ==
    round(manhattan_distance(self.location, destination), self.speed)

\* A start_drive that leaves a driver that is not idle as it is.
start_drive_checked(self, location) ==
    IF self.is_idle
    THEN [self EXCEPT !.is_idle = FALSE, !.destination = location]
    ELSE self

\* The driver after start_drive; the time it returns is get_travel_time.
start_drive(self, location) ==
    [self EXCEPT !.is_idle = FALSE, !.destination = location]

end_drive(self) ==
    [self EXCEPT !.location = self.destination, !.is_idle = TRUE]

\* The driver after start_ride(rider): bound to the rider, at the rider's
\* origin, driving to the rider's destination.
start_ride(self, r, rider_obj) ==
    start_drive([self EXCEPT !.rider = r, !.location = rider_obj.origin],
                rider_obj.destination)

\* The driver after end_ride.
end_ride(self) ==
    [end_drive([self EXCEPT !.rider = None]) EXCEPT !.destination = NoLocation]

\* ---------------------------------------------------------------- events
\* An event object: its class, its timestamp and the rider and driver it
\* refers to (None where the class has no such attribute).
RiderRequest(timestamp, r) ==
    [type |-> "RiderRequest", timestamp |-> timestamp, rider |-> r,
     driver |-> None]

DriverRequest(timestamp, d) ==
    [type |-> "DriverRequest", timestamp |-> timestamp, rider |-> None,
     driver |-> d]

Cancellation(timestamp, r, d) ==
    [type |-> "Cancellation", timestamp |-> timestamp, rider |-> r,
     driver |-> d]

Pickup(timestamp, r, d) ==
    [type |-> "Pickup", timestamp |-> timestamp, rider |-> r, driver |-> d]

\* The event Dropoff.__init__ builds; its call of driver.end_ride() is part
\* of the handler that constructs it (Pickup.do).
Dropoff(timestamp, r, d) ==
    [type |-> "Dropoff", timestamp |-> timestamp, rider |-> r, driver |-> d]

\* An Event.__lt__ that also holds between events of one timestamp.
Event_lt_or_equal(self, other) == self.timestamp <= other.timestamp

Event_lt(self, other) == self.timestamp < other.timestamp

\* -------------------------------------------------------- priority queue
\* The container: a list kept in priority order. add puts the item before
\* the first item it is less than, so equal items leave in arrival order.
\* later: the positions of the items the new item is less than.
pq_add(items, item, later) ==
    LET pos == IF later = {} THEN Len(items) + 1
               ELSE CHOOSE i \in later : \A j \in later : i <= j
    IN  SubSeq(items, 1, pos - 1) \o <<item>> \o SubSeq(items, pos, Len(items))

pq_is_empty(items) == Len(items) = 0

\* remove returns pq_first and leaves pq_rest.
pq_first(items) == Head(items)

pq_rest(items) == Tail(items)

\* same: the positions of the items equal to the one asked for.
pq_contains(items, same) == same # {}

\* delete takes out the first item equal to the argument; none: no change.
pq_delete(items, same) ==
    IF same = {} THEN items
    ELSE LET pos == CHOOSE i \in same : \A j \in same : i <= j
         IN  SubSeq(items, 1, pos - 1) \o SubSeq(items, pos + 1, Len(items))

\* ----------------------------------------------------------------- state
VARIABLES
    rider,        \* the Rider objects, by line number
    driver,       \* the Driver objects, by line number
    driver_list,  \* Dispatcher.driver_list: drivers, in registration order
    rider_queue,  \* Dispatcher.rider_queue: the waiting list, riders
    events,       \* the run loop's queue of events still to process
    monitor,      \* the notifications the monitor was given, in order
    processed,    \* history: the events processed so far, each with the
                  \* state it was popped in and what its handler did
    crashed       \* an exception left a handler and ended the run

vars == <<rider, driver, driver_list, rider_queue, events, monitor,
          processed, crashed>>

Riders == DOMAIN rider
Drivers == DOMAIN driver

\* The positions of the waiting list whose rider r is less than (r < item).
rider_lt(queue, r) ==
    {i \in 1..Len(queue) : Rider_lt(rider[r], rider[queue[i]])}

\* The positions of the waiting list whose rider equals r (item == r).
rider_eq(queue, r) ==
    {i \in 1..Len(queue) : Rider_eq(rider[queue[i]], rider[r])}

events_add(queue, e) ==
    pq_add(queue, e, {i \in 1..Len(queue) : Event_lt(e, queue[i])})

\* The run loop adds the events a handler returns, in the order of the list.
RECURSIVE events_add_all(_, _)
events_add_all(queue, new_events) ==
    IF new_events = <<>> THEN queue
    ELSE events_add_all(events_add(queue, Head(new_events)), Tail(new_events))

\* monitor.notify(timestamp, category, activity, identifier, location).
\* from_event: the first argument was the event object, not its timestamp.
notify(timestamp, from_event, category, activity, identifier, location) ==
    [timestamp |-> timestamp, from_event |-> from_event,
     category |-> category, activity |-> activity,
     identifier |-> identifier, location |-> location]

\* ------------------------------------------------------------ dispatcher
\* The loop of request_driver from position i on, shortest_time being the
\* driver chosen so far.
RECURSIVE request_driver_scan(_, _, _, _, _)
request_driver_scan(dl, drv, i, shortest_time, r) ==
    IF i > Len(dl) THEN shortest_time
    ELSE LET name == dl[i]
             closer ==
                 get_travel_time(drv[name], r.destination)
                     < get_travel_time(drv[shortest_time], r.destination)
         IN  request_driver_scan(dl, drv, i + 1,
                 IF closer /\ drv[name].is_idle THEN name ELSE shortest_time,
                 r)

\* What request_driver(rider) returns.
request_driver(dl, drv, r) ==
    IF Len(dl) = 0 THEN None
    ELSE request_driver_scan(dl, drv, 1, dl[1], r)

\* The waiting list after request_driver(r).
request_driver_queue(dl, queue, r) ==
    IF Len(dl) = 0 THEN pq_add(queue, r, rider_lt(queue, r)) ELSE queue

\* What request_rider(driver) returns.
request_rider(queue) ==
    IF ~pq_is_empty(queue) THEN pq_first(queue) ELSE None

\* The waiting list after request_rider(driver).
request_rider_queue(queue) ==
    IF ~pq_is_empty(queue) THEN pq_rest(queue) ELSE queue

\* driver_list after request_rider(d).
request_rider_list(dl, queue, d) ==
    IF ~pq_is_empty(queue) THEN dl ELSE Append(dl, d)

\* cancel_ride(r): does it find the rider in the waiting list.
cancel_ride_found(queue, r) == pq_contains(queue, rider_eq(queue, r))

\* The waiting list after cancel_ride(r).
cancel_ride_queue(queue, r) ==
    IF cancel_ride_found(queue, r)
    THEN pq_delete(queue, rider_eq(queue, r))
    ELSE queue

\* The status of rider r after cancel_ride(r), status being the one before.
cancel_ride_status(queue, r, status) ==
    IF cancel_ride_found(queue, r) THEN CANCELLED ELSE status

\* --------------------------------------------------------------- history
\* The record of one processed event: the event, the state it was popped
\* in, what the dispatcher returned to its handler (None if nothing or not
\* asked) and whether the handler took its guarded branch.
Record(e, result, acted) ==
    [event |-> e, result |-> result, acted |-> acted,
     rider |-> rider, driver |-> driver, driver_list |-> driver_list,
     rider_queue |-> rider_queue, events |-> events]

\* ----------------------------------------------------------------- input
Kinds == {"RiderRequest", "DriverRequest"}
Gaps == {0, MaxGap}
Patiences == {1, MaxPatience}
Speeds == {1, MaxSpeed}

\* The timestamp of line i: the gaps up to it, added up.
RECURSIVE line_timestamp(_, _)
line_timestamp(gap, i) ==
    IF i = 0 THEN 0 ELSE line_timestamp(gap, i - 1) + gap[i]

\* create_event_list: one object and one event per line, the locations taken
\* as already deserialized. The run loop then adds the events to its queue in
\* the order of the file. The lines are in timestamp order, the first at 0;
\* a rider's trip goes from one corner of the grid to the other.
Init ==
    \E n \in 1..MaxEvents :
    \E kind \in [1..n -> Kinds], gap \in [1..n -> Gaps] :
        LET rs == {i \in 1..n : kind[i] = "RiderRequest"}
            ds == {i \in 1..n : kind[i] = "DriverRequest"}
            ts(i) == line_timestamp(gap, i)
        IN  /\ gap[1] = 0
            /\ \E patience \in [rs -> Patiences],
                  origin \in [rs -> Locations],
                  destination \in [rs -> Locations],
                  location \in [ds -> Locations],
                  speed \in [ds -> Speeds] :
                  /\ \A i \in rs : origin[i] # destination[i]
                  /\ rider = [i \in rs |->
                         Rider(ts(i), i, patience[i], origin[i],
                               destination[i])]
                  /\ driver = [i \in ds |->
                         Driver(ts(i), i, location[i], speed[i])]
                  /\ events = events_add_all(<<>>,
                         [i \in 1..n |->
                             IF kind[i] = "RiderRequest"
                             THEN RiderRequest(ts(i), i)
                             ELSE DriverRequest(ts(i), i)])
            /\ driver_list = <<>>
            /\ rider_queue = <<>>
            /\ monitor = <<>>
            /\ processed = <<>>
            /\ crashed = FALSE

\* -------------------------------------------------------------- handlers
\* The run loop takes the first event off its queue, unless the run ended.
Popped(type) ==
    /\ ~crashed
    /\ events # <<>>
    /\ Head(events).type = type

\* RiderRequest.do
DoRiderRequest ==
    /\ Popped("RiderRequest")
    /\ LET e == Head(events)
           r == e.rider
           d == request_driver(driver_list, driver, rider[r])
           cancellation ==
               Cancellation(e.timestamp + rider[r].patience, r, d)
       IN  /\ monitor' = Append(monitor,
                  notify(e.timestamp, FALSE, RIDER, REQUEST, rider[r].id,
                         rider[r].origin))
           /\ rider_queue' = request_driver_queue(driver_list, rider_queue, r)
           /\ IF d # None
              THEN LET travel_time ==
                           get_travel_time(driver[d], rider[r].origin)
                   IN  /\ driver' = [driver EXCEPT
                              ![d] = start_drive(@, rider[r].origin)]
                       /\ events' = events_add_all(Tail(events),
                              <<Pickup(e.timestamp + travel_time, r, d),
                                cancellation>>)
              ELSE /\ driver' = driver
                   /\ events' = events_add_all(Tail(events), <<cancellation>>)
           /\ processed' = Append(processed, Record(e, d, d # None))
           /\ UNCHANGED <<rider, driver_list, crashed>>

\* DriverRequest.do
DoDriverRequest ==
    /\ Popped("DriverRequest")
    /\ LET e == Head(events)
           d == e.driver
           r == request_rider(rider_queue)
       IN  /\ monitor' = Append(monitor,
                  notify(e.timestamp, TRUE, DRIVER, REQUEST, driver[d].id,
                         driver[d].location))
           /\ rider_queue' = request_rider_queue(rider_queue)
           /\ driver_list' = request_rider_list(driver_list, rider_queue, d)
           /\ IF r # None
              THEN LET travel_time ==
                           get_travel_time(driver[d], rider[r].origin)
                   IN  /\ driver' = [driver EXCEPT
                              ![d] = start_drive(@, rider[r].origin)]
                       /\ events' = events_add_all(Tail(events),
                              <<Pickup(e.timestamp + travel_time, r, d)>>)
              ELSE /\ driver' = driver
                   /\ events' = Tail(events)
           /\ processed' = Append(processed, Record(e, r, r # None))
           /\ UNCHANGED <<rider, crashed>>

\* The test of Cancellation.do: "if self.rider.status == WAITING".
cancellation_test(rider_obj) == rider_obj.status = WAITING

\* Cancellation.do. It returns nothing; the run loop has nothing to add.
DoCancellation ==
    /\ Popped("Cancellation")
    /\ LET e == Head(events)
           r == e.rider
           waiting == cancellation_test(rider[r])
       IN  /\ IF waiting
              THEN /\ monitor' = Append(monitor,
                          notify(e.timestamp, FALSE, RIDER, CANCEL,
                                 rider[r].id, rider[r].origin))
                   /\ rider_queue' = cancel_ride_queue(rider_queue, r)
                   /\ rider' = [rider EXCEPT
                          ![r].status =
                              cancel_ride_status(rider_queue, r, @)]
              ELSE UNCHANGED <<monitor, rider_queue, rider>>
           /\ events' = Tail(events)
           /\ processed' = Append(processed, Record(e, None, waiting))
           /\ UNCHANGED <<driver, driver_list, crashed>>

\* A Pickup.do that starts the ride whatever the rider's status.
pickup_test_always(rider_obj) == TRUE

\* The test of Pickup.do: "if self.rider.status == WAITING".
pickup_test(rider_obj) == rider_obj.status = WAITING

\* Pickup.do. With a waiting rider: start_ride, the two notifications, the
\* Dropoff event (whose constructor ends the ride) and cancel_ride. With any
\* other rider: the driver lets go of its rider, and "return events" raises
\* UnboundLocalError, events never having been assigned.
DoPickup ==
    /\ Popped("Pickup")
    /\ LET e == Head(events)
           r == e.rider
           d == e.driver
           waiting == pickup_test(rider[r])
           riding == start_ride(driver[d], r, rider[r])
           time == get_travel_time(riding, rider[r].destination)
       IN  /\ IF waiting
              THEN /\ driver' = [driver EXCEPT ![d] = end_ride(riding)]
                   /\ monitor' = monitor \o
                          <<notify(e.timestamp, FALSE, DRIVER, PICKUP,
                                   driver[d].id, rider[r].origin),
                            notify(e.timestamp, FALSE, RIDER, PICKUP,
                                   rider[r].id, rider[r].origin)>>
                   /\ events' = events_add_all(Tail(events),
                          <<Dropoff(e.timestamp + time, r, d)>>)
                   /\ rider_queue' = cancel_ride_queue(rider_queue, r)
                   /\ rider' = [rider EXCEPT
                          ![r].status =
                              cancel_ride_status(rider_queue, r, SATISFIED)]
                   /\ crashed' = FALSE
              ELSE /\ driver' = [driver EXCEPT ![d].rider = None]
                   /\ events' = Tail(events)
                   /\ crashed' = TRUE
                   /\ UNCHANGED <<monitor, rider_queue, rider>>
           /\ processed' = Append(processed, Record(e, None, waiting))
           /\ UNCHANGED driver_list

\* Dropoff.do
DoDropoff ==
    /\ Popped("Dropoff")
    /\ LET e == Head(events)
           r == e.rider
           d == e.driver
       IN  /\ monitor' = monitor \o
                  <<notify(e.timestamp, FALSE, DRIVER, DROPOFF, driver[d].id,
                           rider[r].destination),
                    notify(e.timestamp, FALSE, RIDER, DROPOFF, rider[r].id,
                           rider[r].destination)>>
           /\ events' = events_add_all(Tail(events),
                  <<DriverRequest(e.timestamp, d)>>)
           /\ processed' = Append(processed, Record(e, None, TRUE))
           /\ UNCHANGED <<rider, driver, driver_list, rider_queue, crashed>>

Next ==
    \/ DoRiderRequest
    \/ DoDriverRequest
    \/ DoCancellation
    \/ DoPickup
    \/ DoDropoff

Spec == Init /\ [][Next]_vars

\* The run is over: the queue is empty or an exception ended it.
Finished == crashed \/ events = <<>>

TypeOK ==
    /\ \A r \in Riders : rider[r].status \in {WAITING, CANCELLED, SATISFIED}
    /\ \A d \in Drivers : driver[d].is_idle \in BOOLEAN
    /\ \A i \in 1..Len(driver_list) : driver_list[i] \in Drivers
    /\ \A i \in 1..Len(rider_queue) : rider_queue[i] \in Riders
    /\ crashed \in BOOLEAN

\* ================================================================ claims
Steps == 1..Len(processed)

\* The event processed last and its record.
Last == processed[Len(processed)]
Handled(type) == processed # <<>> /\ Last.event.type = type

\* The riders, the drivers, the waiting list and the registered drivers
\* right after step k.
RiderAfter(k) == IF k = Len(processed) THEN rider ELSE processed[k + 1].rider
DriverAfter(k) ==
    IF k = Len(processed) THEN driver ELSE processed[k + 1].driver
QueueAfter(k) ==
    IF k = Len(processed) THEN rider_queue ELSE processed[k + 1].rider_queue
ListAfter(k) ==
    IF k = Len(processed) THEN driver_list ELSE processed[k + 1].driver_list

Members(seq) == {seq[i] : i \in 1..Len(seq)}

Terminal == {CANCELLED, SATISFIED}

\* Rider r was picked up by an event with a timestamp before t.
PickedUpBefore(r, t) ==
    \E k \in Steps :
        /\ processed[k].event.type = "Pickup"
        /\ processed[k].event.rider = r
        /\ processed[k].acted
        /\ processed[k].event.timestamp < t

\* The time rider r runs out of patience.
Deadline(r) == rider[r].timestamp + rider[r].patience

\* C1: a rider with patience p requested at t that no Pickup reaches before
\* t + p is cancelled at t + p: its Cancellation is processed with that
\* timestamp and leaves the rider's status Cancelled.
C1_CancelledAtDeadline ==
    /\ \A k \in Steps :
           LET e == processed[k].event
           IN  e.type = "Cancellation" =>
                   /\ e.timestamp = Deadline(e.rider)
                   /\ ~PickedUpBefore(e.rider, Deadline(e.rider)) =>
                          RiderAfter(k)[e.rider].status = CANCELLED
    /\ events = <<>> =>
           \A r \in Riders :
               \E k \in Steps :
                   /\ processed[k].event.type = "Cancellation"
                   /\ processed[k].event.rider = r

\* C2: a Pickup popped for a rider that is already Cancelled or Satisfied
\* leaves the rider's status as it was and the driver not bound to the rider.
C2_PickupLeavesTerminalRider ==
    \A k \in Steps :
        LET e == processed[k].event
        IN  (e.type = "Pickup" /\ processed[k].rider[e.rider].status \in Terminal)
                => /\ RiderAfter(k)[e.rider].status
                          = processed[k].rider[e.rider].status
                   /\ DriverAfter(k)[e.driver].rider # e.rider

\* A Pickup was processed for a rider that was Cancelled by then.
C2_Witness ==
    /\ Handled("Pickup")
    /\ Last.rider[Last.event.rider].status \in Terminal
    /\ ~Last.acted

\* C3: Cancelled and Satisfied are terminal: no event changes such a status,
\* and a Pickup that picks its rider up leaves the rider Satisfied, the
\* cancel_ride call inside it changing nothing.
C3_TerminalStatus ==
    \A k \in Steps :
        LET e == processed[k].event
        IN  /\ \A r \in Riders :
                   processed[k].rider[r].status \in Terminal =>
                       RiderAfter(k)[r].status = processed[k].rider[r].status
            /\ (e.type = "Pickup" /\ processed[k].acted) =>
                   RiderAfter(k)[e.rider].status = SATISFIED

NoDuplicates(seq) ==
    \A i, j \in 1..Len(seq) : seq[i] = seq[j] => i = j

\* The riders step k took off the waiting list.
Removed(k) == Members(processed[k].rider_queue) \ Members(QueueAfter(k))

\* C4: a rider is in the waiting list at most once, and leaves it once only,
\* taken by the DriverRequest it is matched to or by its own Cancellation,
\* never by an event about another rider.
C4_WaitingListRemoval ==
    /\ NoDuplicates(rider_queue)
    /\ \A k \in Steps :
           LET e == processed[k].event
           IN  \A r \in Removed(k) :
                   /\ \/ e.type = "DriverRequest" /\ processed[k].result = r
                      \/ e.type = "Cancellation" /\ e.rider = r
                   /\ \A l \in Steps : l > k => r \notin Members(QueueAfter(l))

\* The RiderRequest of rider r was processed.
Requested(r) ==
    \E k \in Steps :
        processed[k].event.type = "RiderRequest" /\ processed[k].event.rider = r

\* The dispatcher gave rider r a driver (request_driver) or gave r to a
\* driver (request_rider).
Matched(r) ==
    \E k \in Steps :
        \/ /\ processed[k].event.type = "RiderRequest"
           /\ processed[k].event.rider = r
           /\ processed[k].result # None
        \/ /\ processed[k].event.type = "DriverRequest"
           /\ processed[k].result = r

\* C5: between events a rider is in the waiting list exactly if its status
\* is Waiting and it was requested and not yet matched to a driver.
C5_WaitingListMembership ==
    \A r \in Riders :
        r \in Members(rider_queue)
            <=> (rider[r].status = WAITING /\ Requested(r) /\ ~Matched(r))

\* The positions of driver_list that hold an idle driver, in the state of
\* a record.
IdlePositions(rec) ==
    {i \in 1..Len(rec.driver_list) : rec.driver[rec.driver_list[i]].is_idle}

\* C6: request_driver returns only a driver that is idle at the call; with
\* no driver registered, or none of them idle, it puts the rider on the
\* waiting list and returns None.
C6_RequestDriverIdle ==
    \A k \in Steps :
        LET rec == processed[k]
        IN  rec.event.type = "RiderRequest" =>
                /\ rec.result # None => rec.driver[rec.result].is_idle
                /\ IdlePositions(rec) = {} =>
                       /\ rec.result = None
                       /\ rec.event.rider \in Members(QueueAfter(k))

\* C7: with an idle driver registered, request_driver returns the idle
\* driver with the least travel time to the rider's origin, the one
\* registered first among equals.
C7_RequestDriverClosest ==
    \A k \in Steps :
        LET rec == processed[k]
            time(i) == get_travel_time(rec.driver[rec.driver_list[i]],
                                       rec.rider[rec.event.rider].origin)
        IN  (rec.event.type = "RiderRequest" /\ IdlePositions(rec) # {}) =>
                \E i \in IdlePositions(rec) :
                    /\ rec.result = rec.driver_list[i]
                    /\ \A j \in IdlePositions(rec) :
                           time(i) < time(j) \/ (time(i) = time(j) /\ i <= j)

\* The step that processed the RiderRequest of rider r.
RequestStep(r) ==
    CHOOSE k \in Steps :
        processed[k].event.type = "RiderRequest" /\ processed[k].event.rider = r

\* C8: request_rider with a waiting list that is not empty takes the rider
\* requested earliest off it and returns that rider: none of the others has
\* an earlier timestamp, nor the same timestamp and an earlier request.
C8_RequestRiderEarliest ==
    \A k \in Steps :
        LET rec == processed[k]
            waiting == Members(rec.rider_queue)
        IN  (rec.event.type = "DriverRequest" /\ waiting # {}) =>
                /\ rec.result \in waiting
                /\ Members(QueueAfter(k)) = waiting \ {rec.result}
                /\ \A q \in waiting \ {rec.result} :
                       \/ rider[rec.result].timestamp < rider[q].timestamp
                       \/ /\ rider[rec.result].timestamp = rider[q].timestamp
                          /\ RequestStep(rec.result) < RequestStep(q)

\* A DriverRequest found two riders with different timestamps waiting.
C8_Witness ==
    /\ Handled("DriverRequest")
    /\ \E q \in Members(Last.rider_queue) :
           rider[q].timestamp > rider[Last.result].timestamp

\* C9: a driver that has asked for a rider is registered, driver_list never
\* holds a driver twice, and no driver ever leaves it.
C9_RegisteredOnce ==
    /\ NoDuplicates(driver_list)
    /\ \A k \in Steps :
           /\ processed[k].event.type = "DriverRequest" =>
                  processed[k].event.driver \in Members(ListAfter(k))
           /\ Members(processed[k].driver_list) \subseteq Members(ListAfter(k))

\* C10: a rider whose Cancellation was processed while the rider was on the
\* waiting list is off the list afterwards, and no later request_rider
\* returns it.
C10_CancelledNeverMatched ==
    \A k \in Steps :
        LET e == processed[k].event
        IN  (e.type = "Cancellation" /\ e.rider \in Members(processed[k].rider_queue))
                => /\ e.rider \notin Members(QueueAfter(k))
                   /\ \A l \in Steps :
                          (l > k /\ processed[l].event.type = "DriverRequest")
                              => processed[l].result # e.rider

\* Step k called cancel_ride for the rider of its event: a Cancellation that
\* found the rider Waiting, or a Pickup that picked the rider up.
CalledCancelRide(k) ==
    /\ processed[k].event.type \in {"Cancellation", "Pickup"}
    /\ processed[k].acted

\* The status the rider of step k has when the step calls cancel_ride: a
\* Pickup has made it Satisfied by then.
StatusAtCancelRide(k) ==
    IF processed[k].event.type = "Pickup"
    THEN SATISFIED
    ELSE processed[k].rider[processed[k].event.rider].status

\* C11: cancel_ride for a rider that is not itself in the waiting list
\* changes nothing: the waiting list and the status of every rider stay as
\* they were, whatever the timestamps of the riders that wait.
C11_CancelRideNoOp ==
    \A k \in Steps :
        LET rec == processed[k]
            r == rec.event.rider
        IN  (CalledCancelRide(k) /\ r \notin Members(rec.rider_queue)) =>
                /\ QueueAfter(k) = rec.rider_queue
                /\ RiderAfter(k)[r].status = StatusAtCancelRide(k)
                /\ \A q \in Riders \ {r} :
                       RiderAfter(k)[q].status = rec.rider[q].status

\* Step l processed the Dropoff of rider r by driver d.
DroppedOff(l, r, d) ==
    /\ processed[l].event.type = "Dropoff"
    /\ processed[l].event.rider = r
    /\ processed[l].event.driver = d

\* C12: from the Pickup that picks a rider up until the Dropoff of that ride
\* is processed, the driver is not idle, is bound to the rider and is at the
\* rider's origin; the ride ends when the Dropoff is processed, which leaves
\* the driver idle at the rider's destination.
C12_RidingUntilDropoff ==
    \A k \in Steps :
        LET e == processed[k].event
            r == e.rider
            d == e.driver
        IN  (e.type = "Pickup" /\ processed[k].acted) =>
                \A l \in Steps :
                    /\ (l >= k /\ \A m \in (k + 1)..l : ~DroppedOff(m, r, d)) =>
                           /\ ~DriverAfter(l)[d].is_idle
                           /\ DriverAfter(l)[d].rider = r
                           /\ DriverAfter(l)[d].location = rider[r].origin
                    /\ (l > k /\ DroppedOff(l, r, d)) =>
                           /\ DriverAfter(l)[d].is_idle
                           /\ DriverAfter(l)[d].location = rider[r].destination

\* C13: a Pickup whose rider is no longer Waiting is processed without an
\* error: the run goes on, the rider is not picked up, the driver is bound
\* to no rider and no Dropoff is scheduled for the pair.
C13_StalePickupTolerated ==
    (Handled("Pickup") /\ ~pickup_test(Last.rider[Last.event.rider])) =>
        /\ ~crashed
        /\ rider[Last.event.rider].status = Last.rider[Last.event.rider].status
        /\ driver[Last.event.driver].rider = None
        /\ \A i \in 1..Len(events) :
               ~(/\ events[i].type = "Dropoff"
                 /\ events[i].rider = Last.event.rider
                 /\ events[i].driver = Last.event.driver)

\* A notification as the monitor is due it: the time of the event, the
\* category, the activity and the identifier of the actor.
Due(timestamp, category, activity, identifier) ==
    [timestamp |-> timestamp, from_event |-> FALSE, category |-> category,
     activity |-> activity, identifier |-> identifier]

\* Step k cancelled the rider of its Cancellation.
Cancelled(k) ==
    /\ processed[k].event.type = "Cancellation"
    /\ processed[k].rider[processed[k].event.rider].status # CANCELLED
    /\ RiderAfter(k)[processed[k].event.rider].status = CANCELLED

\* The notifications step k owes the monitor.
DueAt(k) ==
    LET e == processed[k].event
        t == e.timestamp
    IN  CASE e.type = "RiderRequest" -> <<Due(t, RIDER, REQUEST, e.rider)>>
          [] e.type = "DriverRequest" -> <<Due(t, DRIVER, REQUEST, e.driver)>>
          [] e.type = "Cancellation" ->
                 IF Cancelled(k) THEN <<Due(t, RIDER, CANCEL, e.rider)>>
                 ELSE <<>>
          [] e.type = "Pickup" ->
                 IF processed[k].acted
                 THEN <<Due(t, DRIVER, PICKUP, e.driver),
                        Due(t, RIDER, PICKUP, e.rider)>>
                 ELSE <<>>
          [] e.type = "Dropoff" ->
                 <<Due(t, DRIVER, DROPOFF, e.driver),
                   Due(t, RIDER, DROPOFF, e.rider)>>

RECURSIVE DueUpTo(_)
DueUpTo(k) == IF k = 0 THEN <<>> ELSE DueUpTo(k - 1) \o DueAt(k)

\* What the monitor was given, the locations left out.
Heard ==
    [i \in 1..Len(monitor) |->
        [timestamp |-> monitor[i].timestamp,
         from_event |-> monitor[i].from_event,
         category |-> monitor[i].category,
         activity |-> monitor[i].activity,
         identifier |-> monitor[i].identifier]]

\* C14: the monitor is given one notification for each actor of each
\* activity, in the order the events are processed and with the timestamp of
\* the event: a rider's or a driver's request, a rider's cancellation that
\* cancels it, the driver and the rider of a pickup and of a dropoff.
C14_OneNotificationEach == Heard = DueUpTo(Len(processed))

\* ======================================================= driver transitions
\* The methods of one Driver called one after another on a rider, from the
\* driver as constructed: the calls the handlers make and any other order.
MaxCalls == 3

\* The record of one call: the method, its argument (a location, a rider or
\* None), whether it raised, and the objects before the call.
Call(name, argument, raised) ==
    [call |-> name, argument |-> argument, raised |-> raised,
     rider |-> rider, driver |-> driver]

TheRider == 1
TheDriver == 2

DriverInit ==
    /\ \E status \in {WAITING, CANCELLED, SATISFIED},
          origin \in Locations, destination \in Locations,
          location \in Locations, speed \in Speeds :
          /\ origin # destination
          /\ rider = [i \in {TheRider} |->
                 [Rider(0, i, MaxPatience, origin, destination)
                      EXCEPT !.status = status]]
          /\ driver = [i \in {TheDriver} |-> Driver(0, i, location, speed)]
    /\ driver_list = <<>>
    /\ rider_queue = <<>>
    /\ events = <<>>
    /\ monitor = <<>>
    /\ processed = <<>>
    /\ crashed = FALSE

\* The caller goes on while no call raised.
Calling == ~crashed /\ Len(processed) < MaxCalls

\* driver.start_drive(location). get_travel_time raises AttributeError when
\* the driver's location is None (end_drive without a destination left it
\* so); nothing else is tested.
CallStartDrive ==
    /\ Calling
    /\ \E location \in Locations :
           LET raised == driver[TheDriver].location = NoLocation
           IN  /\ driver' =
                      IF raised THEN driver
                      ELSE [driver EXCEPT ![TheDriver] = start_drive(@, location)]
               /\ crashed' = raised
               /\ processed' =
                      Append(processed, Call("start_drive", location, raised))
    /\ UNCHANGED <<rider, driver_list, rider_queue, events, monitor>>

\* driver.end_drive()
CallEndDrive ==
    /\ Calling
    /\ driver' = [driver EXCEPT ![TheDriver] = end_drive(@)]
    /\ processed' = Append(processed, Call("end_drive", None, FALSE))
    /\ UNCHANGED <<rider, driver_list, rider_queue, events, monitor, crashed>>

\* driver.start_ride(rider)
CallStartRide ==
    /\ Calling
    /\ driver' = [driver EXCEPT
           ![TheDriver] = start_ride(@, TheRider, rider[TheRider])]
    /\ rider' = [rider EXCEPT ![TheRider].status = SATISFIED]
    /\ processed' = Append(processed, Call("start_ride", TheRider, FALSE))
    /\ UNCHANGED <<driver_list, rider_queue, events, monitor, crashed>>

\* driver.end_ride(). "self.rider.status = SATISFIED" raises AttributeError
\* when no rider is bound, before anything is changed.
CallEndRide ==
    /\ Calling
    /\ LET raised == driver[TheDriver].rider = None
       IN  /\ driver' =
                  IF raised THEN driver
                  ELSE [driver EXCEPT ![TheDriver] = end_ride(@)]
           /\ rider' =
                  IF raised THEN rider
                  ELSE [rider EXCEPT
                           ![driver[TheDriver].rider].status = SATISFIED]
           /\ crashed' = raised
           /\ processed' = Append(processed, Call("end_ride", None, raised))
    /\ UNCHANGED <<driver_list, rider_queue, events, monitor>>

DriverNext ==
    \/ CallStartDrive
    \/ CallEndDrive
    \/ CallStartRide
    \/ CallEndRide

DriverSpec == DriverInit /\ [][DriverNext]_vars

\* Call k was made with a precondition of the claim violated: start_drive or
\* start_ride on a driver that is not idle, start_ride with a rider that is
\* not Waiting, end_drive without a destination, end_ride without a rider.
PreconditionViolated(k) ==
    LET self == processed[k].driver[TheDriver]
    IN  \/ processed[k].call = "start_drive" /\ ~self.is_idle
        \/ /\ processed[k].call = "start_ride"
           /\ ~self.is_idle \/ processed[k].rider[TheRider].status # WAITING
        \/ processed[k].call = "end_drive" /\ self.destination = NoLocation
        \/ processed[k].call = "end_ride" /\ self.rider = None

\* Call k raised and changed neither the driver nor the rider.
FailedFast(k) ==
    /\ processed[k].raised
    /\ DriverAfter(k) = processed[k].driver
    /\ RiderAfter(k) = processed[k].rider

\* C15 as claimed: every driver transition called with its precondition
\* violated raises and leaves the driver and the rider as they were.
C15_FailFast ==
    \A k \in Steps : PreconditionViolated(k) => FailedFast(k)

\* C15: of the driver transitions called with a precondition violated only
\* end_ride without a rider raises, and it changes nothing; start_drive and
\* start_ride on a driver that is not idle, start_ride with a rider that is
\* not Waiting and end_drive without a destination raise nothing and change
\* the state as a legal call does.
C15_OnlyEndRideFails ==
    \A k \in Steps :
        LET after == DriverAfter(k)[TheDriver]
            r == processed[k].rider[TheRider]
        IN  PreconditionViolated(k) =>
                CASE processed[k].call = "end_ride" -> FailedFast(k)
                  [] processed[k].call = "start_drive" ->
                         /\ ~processed[k].raised
                         /\ ~after.is_idle
                         /\ after.destination = processed[k].argument
                  [] processed[k].call = "start_ride" ->
                         /\ ~processed[k].raised
                         /\ ~after.is_idle
                         /\ after.rider = TheRider
                         /\ after.location = r.origin
                         /\ after.destination = r.destination
                         /\ RiderAfter(k)[TheRider].status = SATISFIED
                  [] processed[k].call = "end_drive" ->
                         /\ ~processed[k].raised
                         /\ after.is_idle
                         /\ after.location = NoLocation

\* start_ride was called on a driver that was not idle, with a rider that
\* was not Waiting.
C15_Witness ==
    /\ processed # <<>>
    /\ Last.call = "start_ride"
    /\ ~Last.driver[TheDriver].is_idle
    /\ Last.rider[TheRider].status # WAITING

\* ============================================================ event order
\* The run loop's queue right after step k, and before the first step.
EventsAfter(k) ==
    IF k = Len(processed) THEN events ELSE processed[k + 1].events

FirstEvents == EventsAfter(0)

Sorted(queue) ==
    \A i, j \in 1..Len(queue) :
        i < j => queue[i].timestamp <= queue[j].timestamp

\* The line of the input a seed event was read from.
Line(e) == e.rider + e.driver

\* new is old with events put in, each behind every event of old that is
\* not later than it: the events of old keep their order and go first among
\* equal timestamps.
RECURSIVE AddedBehind(_, _)
AddedBehind(old, new) ==
    IF new = <<>> THEN old = <<>>
    ELSE IF old # <<>> /\ Head(new) = Head(old)
         THEN AddedBehind(Tail(old), Tail(new))
         ELSE /\ \A i \in 1..Len(old) :
                     Head(new).timestamp < old[i].timestamp
              /\ AddedBehind(old, Tail(new))

TravelTime(d, origin, destination) ==
    get_travel_time([driver[d] EXCEPT !.location = origin], destination)

\* Step k processed event e.
ProcessedAt(k, e) == processed[k].event = e

\* C17: one driver d, registered and idle, and one rider r requested at t
\* whose patience outlasts the drive to its origin: request_driver returns d
\* and a Pickup is scheduled at t plus the travel time from d's location to
\* r's origin; the Pickup, once processed, leaves d at r's origin and a
\* Dropoff scheduled at its own time plus the travel time from origin to
\* destination; the Dropoff, once processed, leaves d at r's destination and
\* a DriverRequest of d scheduled at the time of the Dropoff.
C17_SingleRide ==
    \A k \in Steps :
        LET rec == processed[k]
            r == rec.event.rider
            d == rec.driver_list[1]
            t == rec.event.timestamp
            pickup ==
                Pickup(t + get_travel_time(rec.driver[d], rider[r].origin),
                       r, d)
            dropoff ==
                Dropoff(pickup.timestamp
                            + TravelTime(d, rider[r].origin,
                                         rider[r].destination),
                        r, d)
        IN  (/\ rec.event.type = "RiderRequest"
             /\ Riders = {r}
             /\ Len(rec.driver_list) = 1
             /\ Drivers = {d}
             /\ rec.driver[d].is_idle
             /\ pickup.timestamp < Deadline(r)) =>
                /\ rec.result = d
                /\ pickup \in Members(EventsAfter(k))
                /\ \A m \in Steps :
                       /\ ProcessedAt(m, pickup) =>
                              /\ DriverAfter(m)[d].location = rider[r].origin
                              /\ dropoff \in Members(EventsAfter(m))
                       /\ ProcessedAt(m, dropoff) =>
                              /\ DriverAfter(m)[d].location
                                     = rider[r].destination
                              /\ DriverRequest(dropoff.timestamp, d)
                                     \in Members(EventsAfter(m))

\* =============================================================== distance
\* manhattan_distance applied to the locations of a driver and of a rider's
\* origin and destination, any three places of the grid.
Grid == {Location(row, column) : row \in 0..MaxRow, column \in 0..MaxCol}

MetricInit ==
    /\ \E a \in Grid, b \in Grid, c \in Grid :
          /\ driver = [i \in {TheDriver} |-> Driver(0, i, a, 1)]
          /\ rider = [i \in {TheRider} |-> Rider(0, i, MaxPatience, b, c)]
    /\ driver_list = <<>>
    /\ rider_queue = <<>>
    /\ events = <<>>
    /\ monitor = <<>>
    /\ processed = <<>>
    /\ crashed = FALSE

\* The distances between the three locations, as manhattan_distance
\* returns them.
Measure ==
    /\ processed = <<>>
    /\ LET a == driver[TheDriver].location
           b == rider[TheRider].origin
           c == rider[TheRider].destination
       IN  processed' =
               <<[a |-> a, b |-> b, c |-> c,
                  ab |-> manhattan_distance(a, b),
                  ba |-> manhattan_distance(b, a),
                  bc |-> manhattan_distance(b, c),
                  ac |-> manhattan_distance(a, c)]>>
    /\ UNCHANGED <<rider, driver, driver_list, rider_queue, events, monitor,
                   crashed>>

MetricNext == Measure

MetricSpec == MetricInit /\ [][MetricNext]_vars

\* C19: for any locations a, b, c of the grid the distance from a to b is
\* not negative, is zero exactly if a and b have the same row and the same
\* column, is the distance from b to a, and the distance from a to c is at
\* most the distance from a to b plus the distance from b to c.
C19_DistanceIsMetric ==
    processed # <<>> =>
        /\ Last.ab >= 0
        /\ Last.ab = 0 <=> (Last.a.row = Last.b.row /\ Last.a.col = Last.b.col)
        /\ Last.ab = Last.ba
        /\ Last.ac <= Last.ab + Last.bc

\* The distances were taken between three locations with b off the way from
\* a to c, and a beyond b in row and column.
C19_Witness ==
    /\ processed # <<>>
    /\ Last.a.row > Last.b.row
    /\ Last.a.col > Last.b.col
    /\ Last.bc > 0
    /\ Last.ac < Last.ab + Last.bc

\* ========================================================== cancel notices
\* Step k of a run gave the monitor a Rider/Cancel notification: a
\* Cancellation that found its rider Waiting.
NotifiedCancel(k) ==
    processed[k].event.type = "Cancellation" /\ processed[k].acted

\* C20: a Rider/Cancel notification is given only by an event that leaves
\* the rider Cancelled: after it the rider is never Waiting and is never
\* picked up.
C20_CancelNoticeMeansCancelled ==
    \A k \in Steps :
        NotifiedCancel(k) =>
            \A l \in Steps :
                l >= k =>
                    /\ RiderAfter(l)[processed[k].event.rider].status
                           = CANCELLED
                    /\ ~(/\ l > k
                         /\ processed[l].event.type = "Pickup"
                         /\ processed[l].event.rider = processed[k].event.rider
                         /\ processed[l].acted)

\* ===================================================== driver commitments
\* The events of the queue that commit a driver to a rider: the Pickups and
\* the Dropoffs still to be processed.
Commitments ==
    {i \in 1..Len(events) : events[i].type \in {"Pickup", "Dropoff"}}

\* C21: a driver is committed to one rider at most: the queue never holds
\* Pickup or Dropoff events of one driver for two riders, no driver on its
\* way to a rider or carrying one being given another.
C21_OneRiderPerDriver ==
    \A i, j \in Commitments :
        events[i].driver = events[j].driver
            => events[i].rider = events[j].rider

\* ============================================================ logical time
\* C22: time never goes backwards: no event queued after an event was
\* processed at time t, the events its handler returned among them, has a
\* timestamp before t, and the timestamps of the events processed never
\* decrease.
C22_TimeNeverGoesBack ==
    /\ \A k \in Steps :
           \A i \in 1..Len(EventsAfter(k)) :
               EventsAfter(k)[i].timestamp >= processed[k].event.timestamp
    /\ \A k \in Steps :
           k > 1 => processed[k - 1].event.timestamp
                        <= processed[k].event.timestamp

\* A Dropoff has queued a DriverRequest of its own timestamp, after a Pickup
\* that queued the Dropoff for a later time.
C22_Witness ==
    /\ Handled("Dropoff")
    /\ DriverRequest(Last.event.timestamp, Last.event.driver) \in Members(events)
    /\ \E k \in Steps :
           /\ processed[k].event.type = "Pickup"
           /\ processed[k].event.rider = Last.event.rider
           /\ processed[k].event.timestamp < Last.event.timestamp

\* ============================================================= termination
\* The Dropoff events processed for rider r.
DropoffsOf(r) ==
    {k \in Steps :
        processed[k].event.type = "Dropoff" /\ processed[k].event.rider = r}

\* C23: a run ends with the queue of events empty, no handler having
\* failed, and every requested rider Cancelled or Satisfied; no rider goes
\* through the cycle of Pickup and Dropoff more than once.
C23_EndsEmptyAndTerminal ==
    /\ \A r \in Riders : Cardinality(DropoffsOf(r)) <= 1
    /\ Finished =>
           /\ ~crashed
           /\ events = <<>>
           /\ \A r \in Riders : Requested(r) => rider[r].status \in Terminal

====
